---- MODULE Spec2Model ----
(***************************************************************************)
(* A model of the jsonrpc-v2 dispatch engine: the request envelope and its *)
(* tri-state id, the raw-bytes entry point (array sniffing, raw values,    *)
(* envelope deserialization), the method registry built by ServerBuilder,  *)
(* the middleware continuation chain (Next::run), the type-erased handler  *)
(* and the single / batch response assembly of Server::handle.             *)
(***************************************************************************)
EXTENDS Integers, Sequences, FiniteSets, Bags, TLC

\* ------------------------------------------------------------------ bounds
\* Largest number of elements of a batch (typed list or raw array).
MaxBatch == 2
MaxInserts == 3

\* ------------------------------------------------------------- identifiers
\* lib.rs Id: Num(i64) | Str(Box<str>) | Null, as records of one shape.
Num(n) == [k |-> "num", n |-> n, s |-> ""]
Str(s) == [k |-> "str", n |-> 0, s |-> s]
Null == [k |-> "null", n |-> 0, s |-> ""]

\* RequestObject.id is Option<Option<Id>>: None (field absent), Some(None)
\* (field present, JSON null); Some(Some(id)) is written as the Id itself.
IdNone == [k |-> "none", n |-> 0, s |-> ""]
IdSomeNone == [k |-> "somenone", n |-> 0, s |-> ""]

IsConcrete(id) == id.k \in {"num", "str"}

\* ------------------------------------------------------------------ errors
INVALID_REQUEST == [code |-> -32600, message |-> "Invalid Request"]
METHOD_NOT_FOUND == [code |-> -32601, message |-> "Method not found"]
INVALID_PARAMS == [code |-> -32602, message |-> "Invalid params"]
PARSE_ERROR == [code |-> -32700, message |-> "Parse error"]
NoError == [code |-> 0, message |-> ""]

\* Result<BoxedSerialize, Error>
Ok(val) == [ok |-> TRUE, val |-> val, err |-> NoError]
Err(e) == [ok |-> FALSE, val |-> "", err |-> e]

\* --------------------------------------------------------------- responses
\* response.rs ResponseObject::result / ResponseObject::error
ResponseObject_result(result, id) ==
    [kind |-> "result", result |-> result, error |-> NoError, id |-> id]

ResponseObject_error(error, id) ==
    [kind |-> "error", result |-> "", error |-> error, id |-> id]

NoResponse == [kind |-> "none", result |-> "", error |-> NoError, id |-> Null]

\* SingleResponseObject: One(ResponseObject) | Empty
One(r) == [shape |-> "One", one |-> r]
Empty == [shape |-> "Empty", one |-> NoResponse]

\* server.rs:177, 178 and 184 hand an Option<Id> to SingleResponseObject::result
\* and ::error, which response.rs:65 and :72 declare to take an Id; src holds the
\* callers and the declarations but no conversion between the two.  The present
\* option is its content.  For the absent option the source decides nothing, so
\* that branch is taken from the specification: a request whose id field is
\* omitted produces no response body, which is what response.rs does for
\* Id::Null.
AsId(opt_id) == IF opt_id.k = "none" THEN Null ELSE opt_id

\* SingleResponseObject::result that suppresses only the absent id.
SingleResponseObject_result_option(result, opt_id) ==
    IF opt_id.k = "none"
    THEN Empty
    ELSE One(ResponseObject_result(result, opt_id))

\* response.rs SingleResponseObject::result
SingleResponseObject_result(result, opt_id) ==
    IF AsId(opt_id).k = "null"
    THEN Empty
    ELSE One(ResponseObject_result(result, AsId(opt_id)))

\* SingleResponseObject::error that answers every failure.
SingleResponseObject_error_always(error, opt_id) ==
    One(ResponseObject_error(error, AsId(opt_id)))

\* response.rs SingleResponseObject::error
SingleResponseObject_error(error, opt_id) ==
    IF AsId(opt_id).k = "null"
    THEN Empty
    ELSE One(ResponseObject_error(error, AsId(opt_id)))

\* ResponseObjects: One | Many(Vec) | Empty, as one record shape.
ResponseObjects_One(r) == [shape |-> "One", one |-> r, many |-> <<>>]
ResponseObjects_Many(v) == [shape |-> "Many", one |-> NoResponse, many |-> v]
ResponseObjects_Empty == [shape |-> "Empty", one |-> NoResponse, many |-> <<>>]
Pending == [shape |-> "Pending", one |-> NoResponse, many |-> <<>>]

\* response.rs impl From<SingleResponseObject> for ResponseObjects
FromSingle(t) ==
    IF t.shape = "One" THEN ResponseObjects_One(t.one) ELSE ResponseObjects_Empty

\* ManyResponseObjects: Many(Vec) | Empty
Many(v) == [shape |-> "Many", many |-> v]
ManyEmpty == [shape |-> "Empty", many |-> <<>>]

\* response.rs impl From<ManyResponseObjects> for ResponseObjects
FromMany(t) ==
    IF t.shape = "Many" THEN ResponseObjects_Many(t.many) ELSE ResponseObjects_Empty

\* ------------------------------------------------------- request envelope
\* request.rs InnerParams behind Option: absent, Value(v) or Raw(v); v names
\* the params value by what it holds:
\*   "null"       null
\*   "obj"        an object without a member that misfits, as {} or {"tag":1}
\*   "obj_bad"    an object whose member has the wrong type, as {"tag":"x"}
\*   "arr_empty"  []
\*   "arr"        an array of one number or null, as [1]
\*   "arr_bad"    any other array, as [1,2] or ["x"]
\*   "str", "num" a string, a number
ParamsNone == [form |-> "none", v |-> "null"]
ParamsValue(v) == [form |-> "value", v |-> v]
ParamsRaw(v) == [form |-> "raw", v |-> v]

\* request.rs RequestObject (jsonrpc is the unit struct V2)
RequestObject(method, params, id) ==
    [jsonrpc |-> "2.0", method |-> method, params |-> params, id |-> id]

\* request.rs RequestBuilder::finish: the id is always Some(Some(id)).
RequestBuilder_finish(method, params, id) == RequestObject(method, params, id)

\* notification.rs NotificationBuilder::finish: the id field is None.
NotificationBuilder_finish(method, params) == RequestObject(method, params, IdNone)

\* ------------------------------------------------------------- JSON values
\* A JSON value of the input text.  kind "obj" carries the members a request
\* object may have: jsonrpc ("absent" or the string written), method
\* ("absent" or the string), params ("absent" or the kind of its value) and
\* id (JAbsent, Null, Num, Str or JBool for a value no Id variant accepts).
\* A string is held by the value it stands for; esc names the strings that are
\* written with an escape sequence: the members "jsonrpc", "method", "id" of
\* an object, "s" for a string value itself.
JAbsent == [k |-> "absent", n |-> 0, s |-> ""]
JBool == [k |-> "bool", n |-> 0, s |-> ""]

JObjEscaped(jsonrpc, method, params, id, esc) ==
    [kind |-> "obj", n |-> 0, s |-> "", jsonrpc |-> jsonrpc, method |-> method,
     params |-> params, id |-> id, esc |-> esc]
JObj(jsonrpc, method, params, id) == JObjEscaped(jsonrpc, method, params, id, {})
JScalar(kind, n, s) ==
    [kind |-> kind, n |-> n, s |-> s, jsonrpc |-> "absent", method |-> "absent",
     params |-> "absent", id |-> JAbsent, esc |-> {}]
JNum(n) == JScalar("num", n, "")
JStr(s) == JScalar("str", 0, s)
JStrEscaped(s) == [JScalar("str", 0, s) EXCEPT !.esc = {"s"}]
JNull == JScalar("null", 0, "")

\* The input bytes as tokens: "ws" one whitespace byte, "[" "]" "," the
\* bytes themselves, "val" the bytes of one object or scalar value, "junk"
\* bytes that are no JSON value.
Tok(t) == [t |-> t, v |-> JNull]
ValTok(v) == [t |-> "val", v |-> v]

\* ----------------------------------------------------------------- parsing
RECURSIVE SkipWs(_, _)
\* serde_json: skip insignificant whitespace from position i.
SkipWs(s, i) == IF i <= Len(s) /\ s[i].t = "ws" THEN SkipWs(s, i + 1) ELSE i

RECURSIVE ValueEnd(_, _), ArrayRest(_, _, _)
\* serde_json RawValue: the position after the value that starts at i, or 0
\* when no well-formed value starts there.
ValueEnd(s, i) ==
    IF i > Len(s) THEN 0
    ELSE IF s[i].t = "val" THEN i + 1
    ELSE IF s[i].t = "[" THEN ArrayRest(s, SkipWs(s, i + 1), TRUE)
    ELSE 0

\* The rest of an array from position i (first: right after the bracket).
ArrayRest(s, i, first) ==
    IF i > Len(s) THEN 0
    ELSE IF first /\ s[i].t = "]" THEN i + 1
    ELSE LET e == ValueEnd(s, i) IN
         IF e = 0 THEN 0
         ELSE LET j == SkipWs(s, e) IN
              IF j > Len(s) THEN 0
              ELSE IF s[j].t = "," THEN ArrayRest(s, SkipWs(s, j + 1), FALSE)
              ELSE IF s[j].t = "]" THEN j + 1
              ELSE 0

RECURSIVE ArrayItems(_, _, _)
\* The raw values of a well-formed array, from position i after the bracket.
ArrayItems(s, i, first) ==
    IF first /\ s[i].t = "]" THEN <<>>
    ELSE LET e == ValueEnd(s, i)
             j == SkipWs(s, e)
         IN <<SubSeq(s, i, e - 1)>> \o
            (IF s[j].t = "," THEN ArrayItems(s, SkipWs(s, j + 1), FALSE) ELSE <<>>)

\* serde_json::from_slice::<&RawValue>: one value, then only whitespace.
from_slice_RawValue(slice) ==
    LET i == SkipWs(slice, 1)
        e == ValueEnd(slice, i)
    IN IF e # 0 /\ SkipWs(slice, e) = Len(slice) + 1
       THEN [ok |-> TRUE, items |-> <<SubSeq(slice, i, e - 1)>>]
       ELSE [ok |-> FALSE, items |-> <<>>]

\* serde_json::from_slice::<Vec<&RawValue>>: one array, then only whitespace.
from_slice_Vec(slice) ==
    LET i == SkipWs(slice, 1)
        e == ValueEnd(slice, i)
    IN IF i <= Len(slice) /\ slice[i].t = "[" /\ e # 0
          /\ SkipWs(slice, e) = Len(slice) + 1
       THEN [ok |-> TRUE, items |-> ArrayItems(slice, SkipWs(slice, i + 1), TRUE)]
       ELSE [ok |-> FALSE, items |-> <<>>]

\* A try_from_slice that takes a failed parse for an empty result.
try_from_slice_defaulting(slice) ==
    IF Len(slice) > 0 /\ slice[1].t = "["
    THEN [ok |-> TRUE, many |-> TRUE, items |-> from_slice_Vec(slice).items]
    ELSE [ok |-> from_slice_RawValue(slice).ok, many |-> FALSE,
          items |-> from_slice_RawValue(slice).items]

\* lib.rs OneOrManyRawValues::try_from_slice: Many when the first byte is '['.
try_from_slice(slice) ==
    IF Len(slice) > 0 /\ slice[1].t = "["
    THEN [ok |-> from_slice_Vec(slice).ok, many |-> TRUE,
          items |-> from_slice_Vec(slice).items]
    ELSE [ok |-> from_slice_RawValue(slice).ok, many |-> FALSE,
          items |-> from_slice_RawValue(slice).items]

\* lib.rs impl Deserialize for V2: the value is deserialized as a borrowed
\* &str, which serde_json gives only for a string written without escapes,
\* and must equal "2.0".
V2_deserialize(v) == v.kind = "str" /\ "s" \notin v.esc /\ v.s = "2.0"

\* The string member of an object as a value of its own.
MemberStr(v, member, s) == IF member \in v.esc THEN JStrEscaped(s) ELSE JStr(s)

\* request.rs RequestObject::deserialize_id on a present id value:
\* Some(Option::<Id>::deserialize(..)?), null giving Some(None).
deserialize_id_ok(j) == j.k \in {"null", "num", "str"}
deserialize_id(j) == IF j.k = "null" THEN IdSomeNone ELSE j

DeFail == [ok |-> FALSE, req |-> RequestObject("", ParamsNone, IdNone)]

\* BytesRequestObject from a JSON object; #[serde(default)] fills absent
\* members from Default: V2, "", None, None.  method (Box<str>) and a string
\* id (Id::Str) are owned strings: they take the value, escapes or not.
BytesRequestObject_from_map(v) ==
    IF /\ (v.jsonrpc = "absent" \/ V2_deserialize(MemberStr(v, "jsonrpc", v.jsonrpc)))
       /\ (v.id.k = "absent" \/ deserialize_id_ok(v.id))
    THEN [ok |-> TRUE,
          req |-> RequestObject(
                      IF v.method = "absent" THEN "" ELSE v.method,
                      IF v.params \in {"absent", "null"} THEN ParamsNone
                      ELSE ParamsRaw(v.params),
                      IF v.id.k = "absent" THEN IdNone ELSE deserialize_id(v.id))]
    ELSE DeFail

\* The JSON kind of a raw value, and its scalar (JNull for an array).
RawKind(raw) == IF raw[1].t = "[" THEN "arr" ELSE raw[1].v.kind
RawScalar(raw) == IF raw[1].t = "[" THEN JNull ELSE raw[1].v
ScalarId(v) == IF v.kind = "num" THEN Num(v.n)
               ELSE IF v.kind = "str" THEN Str(v.s)
               ELSE IF v.kind = "null" THEN Null ELSE JBool

\* What a raw params value holds: a scalar by its kind, an array by its
\* elements.
RawParams(raw) ==
    IF raw[1].t # "[" THEN raw[1].v.kind
    ELSE LET items == ArrayItems(raw, SkipWs(raw, 2), TRUE) IN
         IF Len(items) = 0 THEN "arr_empty"
         ELSE IF Len(items) = 1 /\ RawKind(items[1]) \in {"num", "null"} THEN "arr"
         ELSE "arr_bad"

\* BytesRequestObject from a JSON array (serde's visit_seq of a struct): the
\* members by position, jsonrpc, method, params, id; missing ones default.
BytesRequestObject_from_seq(items) ==
    LET n == Len(items) IN
    IF /\ n <= 4
       /\ (n >= 1 => RawKind(items[1]) = "str" /\ V2_deserialize(RawScalar(items[1])))
       /\ (n >= 2 => RawKind(items[2]) = "str")
       /\ (n >= 4 => RawKind(items[4]) \in {"null", "num", "str"})
    THEN [ok |-> TRUE,
          req |-> RequestObject(
                      IF n >= 2 THEN RawScalar(items[2]).s ELSE "",
                      IF n >= 3 /\ RawKind(items[3]) # "null"
                      THEN ParamsRaw(RawParams(items[3])) ELSE ParamsNone,
                      IF n >= 4 THEN deserialize_id(ScalarId(RawScalar(items[4])))
                      ELSE IdNone)]
    ELSE DeFail

\* serde_json::from_str::<BytesRequestObject>(raw).map(RequestObject::from)
from_str_BytesRequestObject(raw) ==
    IF raw[1].t = "["
    THEN BytesRequestObject_from_seq(ArrayItems(raw, SkipWs(raw, 2), TRUE))
    ELSE IF raw[1].v.kind = "obj" THEN BytesRequestObject_from_map(raw[1].v)
    ELSE DeFail

\* ---------------------------------------------------------------- registry
\* router.rs Route: a handler ("pong", "fail", "docs") and its middlewares.
Route(handler, mws) == [handler |-> handler, middlewares |-> mws]
NoRoute == Route("", <<>>)

\* router.rs MapRouter::default: the empty HashMap.
MapRouter_default == [n \in {} |-> NoRoute]

\* router.rs MapRouter::get
MapRouter_get(r, name) ==
    IF name \in DOMAIN r
    THEN [some |-> TRUE, route |-> r[name]]
    ELSE [some |-> FALSE, route |-> NoRoute]

\* A registry that keeps the first route put under a name.
MapRouter_insert_keep(r, name, route) ==
    [router |-> [n \in DOMAIN r \cup {name} |-> IF n \in DOMAIN r THEN r[n] ELSE route],
     displaced |-> MapRouter_get(r, name)]

\* router.rs MapRouter::insert: the new map and the displaced route.
MapRouter_insert(r, name, route) ==
    [router |-> [n \in DOMAIN r \cup {name} |-> IF n = name THEN route ELSE r[n]],
     displaced |-> MapRouter_get(r, name)]

\* server.rs Server::new / Server::with_router
Server_new(mws) ==
    [router |-> MapRouter_default, routes |-> <<>>, middlewares |-> mws]

\* server.rs ServerBuilder::with_method_middleware: the global middlewares
\* are pushed onto the route's own list, after its own entries.
with_method_middleware(b, name, handler, mws) ==
    [b EXCEPT !.routes = Append(@, name),
              !.router = MapRouter_insert(@, name,
                             Route(handler, mws \o b.middlewares)).router]

\* server.rs ServerBuilder::with_method
with_method(b, name, handler) == with_method_middleware(b, name, handler, <<>>)

\* A documentation route that is given the global middlewares like a
\* registered method.
add_documentation_route_with_globals(b) ==
    [b EXCEPT !.router = MapRouter_insert(@, "__docs__",
                                          Route("docs", b.middlewares)).router]

\* server.rs ServerBuilder::add_documentation_route
add_documentation_route(b) ==
    [b EXCEPT !.router = MapRouter_insert(@, "__docs__", Route("docs", <<>>)).router]

\* server.rs ServerBuilder::finish
finish(b) ==
    [router |-> add_documentation_route(b).router,
     middlewares |-> add_documentation_route(b).middlewares]

\* server.rs ServerBuilder::finish_unwrapped
finish_unwrapped(b) == [router |-> b.router, middlewares |-> b.middlewares]

\* One registration call: name, handler and the route's own middlewares.
Reg(name, handler, mws) == [name |-> name, handler |-> handler, mws |-> mws]

RECURSIVE Register(_, _)
\* The builder after the registration calls regs, in order.
Register(b, regs) ==
    IF regs = <<>> THEN b
    ELSE Register(with_method_middleware(b, regs[1].name, regs[1].handler,
                                         regs[1].mws), Tail(regs))

\* The server a build makes: Server::new(global), the registrations, finish.
BuildServer(c) ==
    IF c.fin = "finish"
    THEN finish(Register(Server_new(c.global), c.regs))
    ELSE finish_unwrapped(Register(Server_new(c.global), c.regs))

\* What the last insert call of a build returned.
BuildDisplaced(c) ==
    LET n == Len(c.regs)
        before == Register(Server_new(c.global), SubSeq(c.regs, 1, n - 1))
    IN IF c.fin = "finish"
       THEN MapRouter_insert(Register(Server_new(c.global), c.regs).router,
                             "__docs__", Route("docs", <<>>)).displaced
       ELSE IF n = 0 THEN MapRouter_get(MapRouter_default, "")
       ELSE MapRouter_insert(before.router, c.regs[n].name,
                             Route(c.regs[n].handler, c.regs[n].mws \o c.global)).displaced

\* -------------------------------------------------- middlewares and handlers
\* middleware.rs impl Middleware for FN: the closures the servers register.
\*   A  replaces the context by a marked copy,
\*   B  rejects a call whose params value is a string with its own error,
\*   C  rewrites the envelope's id.
Rejected == [code |-> 1, message |-> "rejected"]

MiddlewareFn(m, req, metadata) ==
    IF m = "A" THEN [ok |-> TRUE, req |-> req, meta |-> metadata + 2, err |-> NoError]
    ELSE IF m = "B" /\ req.params.v = "str"
    THEN [ok |-> FALSE, req |-> req, meta |-> metadata, err |-> Rejected]
    ELSE IF m = "C"
    THEN [ok |-> TRUE, req |-> [req EXCEPT !.id = Num(9)], meta |-> metadata,
          err |-> NoError]
    ELSE [ok |-> TRUE, req |-> req, meta |-> metadata, err |-> NoError]

\* The extractor type T of each handler: "pong" and "fail" take
\* Params<Option<S>> for S a struct with one optional integer member tag,
\* "docs" takes Params<DummyReq>, DummyReq a struct without members.
ExtractorOf(handler) == IF handler = "docs" THEN "DummyReq" ELSE "OptStruct"

\* serde_json::from_str / from_value into T, by what the value holds.  A
\* derived struct decodes from an object (members it does not know are
\* skipped) and from an array of exactly its members in order; Option
\* decodes null.
Decodes(T, v) ==
    IF T = "DummyReq" THEN v \in {"obj", "obj_bad", "arr_empty"}
    ELSE v \in {"null", "obj", "arr"}

\* request.rs impl FromRequest for Params<T>: Raw and Value decode the value,
\* None decodes JSON null; any failure is INVALID_PARAMS.
from_request(T, req) ==
    IF Decodes(T, IF req.params.form = "none" THEN "null" ELSE req.params.v)
    THEN Ok("") ELSE Err(INVALID_PARAMS)

\* handler.rs Factory::call of the registered functions.
Boom == [code |-> 0, message |-> "boom"]
Factory_call(handler) ==
    IF handler = "pong" THEN Ok("pong")
    ELSE IF handler = "docs" THEN Ok("docs")
    ELSE Err(Boom)

\* ------------------------------------------------------------------- calls
NoResult == [ok |-> FALSE, val |-> "", err |-> NoError]
Entry(who, metadata) == [who |-> who, meta |-> metadata]

\* server.rs handle_request_object, lines 167-171
opt_id(req) ==
    IF req.id.k = "none" THEN IdNone
    ELSE IF req.id.k = "somenone" THEN Null
    ELSE req.id

\* server.rs handle_request_object, lines 176-179 and 182-185: the reply of
\* a call from the chain's result and the id taken before the chain ran.
Reply(res, oid) ==
    IF res.ok THEN SingleResponseObject_result(res.val, oid)
    ELSE SingleResponseObject_error(res.err, oid)

\* A call: the envelope and context it holds now, the id taken on entry, the
\* continuation (remaining middlewares and endpoint), its state ("run" not
\* polled yet, "ready" a ready future, "in_middleware" and "in_handler" inside
\* a closure or the function whose future is pending, "done"), the chain's
\* result, the reply, and the steps entered.
Call(req, metadata, found, route, st, res) ==
    [req |-> req, meta |-> metadata, opt_id |-> opt_id(req), found |-> found,
     endpoint |-> route.handler, next_middleware |-> route.middlewares,
     st |-> st, res |-> res, out |-> Empty, trace |-> <<>>]

\* A handle_request_object that runs nothing for an envelope that expects
\* no reply.
handle_request_object_skipping(r, req, metadata) ==
    IF MapRouter_get(r, req.method).some /\ IsConcrete(opt_id(req))
    THEN Call(req, metadata, TRUE, MapRouter_get(r, req.method).route, "run", NoResult)
    ELSE Call(req, metadata, FALSE, NoRoute, "ready", Err(METHOD_NOT_FOUND))

\* A handle_request_object that extracts the params before the chain runs.
handle_request_object_extracting_first(r, req, metadata) ==
    IF MapRouter_get(r, req.method).some
    THEN IF from_request(ExtractorOf(MapRouter_get(r, req.method).route.handler), req).ok
         THEN Call(req, metadata, TRUE, MapRouter_get(r, req.method).route, "run", NoResult)
         ELSE Call(req, metadata, TRUE, MapRouter_get(r, req.method).route, "ready",
                   Err(INVALID_PARAMS))
    ELSE Call(req, metadata, FALSE, NoRoute, "ready", Err(METHOD_NOT_FOUND))

\* A handle_request_object that reports an unknown method as Invalid Request.
handle_request_object_wrong_error(r, req, metadata) ==
    IF MapRouter_get(r, req.method).some
    THEN Call(req, metadata, TRUE, MapRouter_get(r, req.method).route, "run", NoResult)
    ELSE Call(req, metadata, FALSE, NoRoute, "ready", Err(INVALID_REQUEST))

\* server.rs Server::handle_request_object: the future it returns; an
\* unknown method is a ready future holding METHOD_NOT_FOUND.
handle_request_object(r, req, metadata) ==
    IF MapRouter_get(r, req.method).some
    THEN Call(req, metadata, TRUE, MapRouter_get(r, req.method).route, "run", NoResult)
    ELSE Call(req, metadata, FALSE, NoRoute, "ready", Err(METHOD_NOT_FOUND))

\* A completion that reads the id of the envelope the chain handed on.
Completed_late_id(t, res) ==
    [t EXCEPT !.st = "done", !.res = res, !.out = Reply(res, opt_id(t.req))]

\* The call completed with res: its reply is fixed.
Completed(t, res) == [t EXCEPT !.st = "done", !.res = res, !.out = Reply(res, t.opt_id)]

\* handler.rs Factory::call: whether the future of the registered function
\* may suspend before it returns.  The functions the user registers may;
\* SpecHandler::call (documentation.rs 26-28) has no await in it.
Suspends(handler) == handler # "docs"

\* handler.rs line 66, the future of the function is ready: the call has its
\* outcome.
Factory_returned(t) == Completed(t, Factory_call(t.endpoint))

\* A boxed handler that calls the function before it looks at the params.
BoxedHandler_call_first(t) ==
    IF Suspends(t.endpoint)
    THEN [t EXCEPT !.trace = Append(@, Entry(t.endpoint, t.meta)), !.st = "in_handler"]
    ELSE Factory_returned([t EXCEPT !.trace = Append(@, Entry(t.endpoint, t.meta))])

\* handler.rs From<Handler> for BoxedHandler: extract the params (a future
\* that is ready at once), then call the function; the call is inside the
\* function until the function's future is ready.
BoxedHandler_call(t) ==
    IF ~from_request(ExtractorOf(t.endpoint), t.req).ok
    THEN Completed(t, from_request(ExtractorOf(t.endpoint), t.req))
    ELSE IF Suspends(t.endpoint)
    THEN [t EXCEPT !.trace = Append(@, Entry(t.endpoint, t.meta)), !.st = "in_handler"]
    ELSE Factory_returned([t EXCEPT !.trace = Append(@, Entry(t.endpoint, t.meta))])

\* A continuation that enters the last of the remaining middlewares.
Next_run_from_back(t) ==
    IF t.next_middleware # <<>>
    THEN [t EXCEPT !.next_middleware = SubSeq(@, 1, Len(@) - 1),
                   !.trace = Append(@, Entry(t.next_middleware[Len(t.next_middleware)],
                                             t.meta)),
                   !.st = "in_middleware"]
    ELSE BoxedHandler_call([t EXCEPT !.trace = Append(@, Entry("endpoint", t.meta))])

\* middleware.rs Next::run: enter the first remaining middleware with the
\* rest as its continuation (middleware.rs 50 calls its closure, the call is
\* inside the closure until the closure's future is ready), or the endpoint
\* when none remains.
Next_run(t) ==
    IF t.next_middleware # <<>>
    THEN [t EXCEPT !.next_middleware = Tail(@),
                   !.trace = Append(@, Entry(Head(t.next_middleware), t.meta)),
                   !.st = "in_middleware"]
    ELSE BoxedHandler_call([t EXCEPT !.trace = Append(@, Entry("endpoint", t.meta))])

\* The middleware whose closure the call is inside.
Current(t) == t.trace[Len(t.trace)].who

\* A lifted closure whose error does not end the chain.
Middleware_handle_ignoring(m, t) ==
    Next_run([t EXCEPT !.req = MiddlewareFn(m, t.req, t.meta).req,
                       !.meta = MiddlewareFn(m, t.req, t.meta).meta,
                       !.st = "run"])

\* middleware.rs impl Middleware for FN, handle, from the point where the
\* closure's future is ready: an error returns at once, otherwise the
\* continuation runs with the closure's outputs.
Middleware_handle(m, t) ==
    IF MiddlewareFn(m, t.req, t.meta).ok
    THEN Next_run([t EXCEPT !.req = MiddlewareFn(m, t.req, t.meta).req,
                            !.meta = MiddlewareFn(m, t.req, t.meta).meta,
                            !.st = "run"])
    ELSE Completed(t, Err(MiddlewareFn(m, t.req, t.meta).err))

\* ------------------------------------------------------------ batch assembly
\* An assembly that wraps the collected vector whatever its length.
collect_many_unchecked(vec) == Many(vec)

\* server.rs handle_many_request_objects, lines 204-210
collect_many(vec) == IF vec = <<>> THEN ManyEmpty ELSE Many(vec)

\* An assembly that forgets the errs when no call was answered.
extend_with_errs_dropping(res, es) ==
    IF res.shape = "Many" THEN ResponseObjects_Many(res.many \o es)
    ELSE ResponseObjects_Empty

\* An assembly that puts the errs before the replies.
extend_with_errs_in_front(res, es) ==
    IF res.shape = "Many" THEN ResponseObjects_Many(es \o res.many)
    ELSE IF es = <<>> THEN ResponseObjects_Empty
    ELSE ResponseObjects_Many(es)

\* server.rs handle_bytes, lines 242-254
extend_with_errs(res, es) ==
    IF res.shape = "Many" THEN ResponseObjects_Many(res.many \o es)
    ELSE IF es = <<>> THEN ResponseObjects_Empty
    ELSE ResponseObjects_Many(es)

\* server.rs handle_bytes, lines 262-265
single_from_bytes(res) ==
    IF res.shape = "One" THEN ResponseObjects_One(res.one) ELSE ResponseObjects_Empty

\* server.rs handle_bytes, lines 227-233: deserialize each raw value.
Deserialized(items) == [i \in 1..Len(items) |-> from_str_BytesRequestObject(items[i])]

IsOkay(d) == d.ok
IsErr(d) == ~d.ok

\* server.rs handle_bytes, lines 235-238
ErrResponses(ds) ==
    [i \in 1..Len(SelectSeq(ds, IsErr)) |-> ResponseObject_error(INVALID_REQUEST, Null)]

\* A partition in which one malformed element aborts its siblings.
OkayRequests_aborting(ds) ==
    IF SelectSeq(ds, IsErr) # <<>> THEN <<>>
    ELSE [i \in 1..Len(ds) |-> ds[i].req]

\* server.rs handle_bytes, line 241: okays.into_iter().flatten()
OkayRequests(ds) ==
    [i \in 1..Len(SelectSeq(ds, IsOkay)) |-> SelectSeq(ds, IsOkay)[i].req]

\* server.rs handle_many_request_objects, lines 194-196: one future a member.
Futures(r, reqs, metadata) ==
    [i \in 1..Len(reqs) |-> handle_request_object(r, reqs[i], metadata)]

Started(mode, futures, es, result) ==
    [pc |-> mode, tasks |-> futures, errs |-> es, output |-> result]
Ready(result) == Started("done", <<>>, <<>>, result)

\* The Many arm without the test for an empty array.
handle_bytes_many_unchecked(r, raw_reqs, metadata) ==
    Started("bytes_many",
            Futures(r, OkayRequests(Deserialized(raw_reqs)), metadata),
            ErrResponses(Deserialized(raw_reqs)), Pending)

\* server.rs handle_bytes, lines 220-256: the Many arm.
handle_bytes_many(r, raw_reqs, metadata) ==
    IF raw_reqs = <<>>
    THEN Ready(ResponseObjects_One(ResponseObject_error(INVALID_REQUEST, Null)))
    ELSE Started("bytes_many",
                 Futures(r, OkayRequests(Deserialized(raw_reqs)), metadata),
                 ErrResponses(Deserialized(raw_reqs)), Pending)

\* server.rs handle_bytes, lines 257-271: the One arm.
handle_bytes_one(r, raw_req, metadata) ==
    IF from_str_BytesRequestObject(raw_req).ok
    THEN Started("bytes_one",
                 <<handle_request_object(r, from_str_BytesRequestObject(raw_req).req,
                                         metadata)>>,
                 <<>>, Pending)
    ELSE Ready(ResponseObjects_One(ResponseObject_error(INVALID_REQUEST, Null)))

\* server.rs Server::handle_bytes up to the first suspension: the mode it
\* goes on in, the calls started, the errs kept, or the ready result.
handle_bytes(r, bytes, metadata) ==
    IF ~try_from_slice(bytes).ok
    THEN Ready(ResponseObjects_One(ResponseObject_error(PARSE_ERROR, Null)))
    ELSE IF try_from_slice(bytes).many
    THEN handle_bytes_many(r, try_from_slice(bytes).items, metadata)
    ELSE handle_bytes_one(r, try_from_slice(bytes).items[1], metadata)

\* ------------------------------------------------------------------ inputs
\* The servers: global middlewares, registration calls, finishing call.
Globals == {<<>>, <<"A", "B">>}
Registrations ==
    {<<>>}
    \cup {<<Reg("ping", "pong", m)>> : m \in {<<>>, <<"C">>}}
    \cup {<<Reg("ping", "fail", <<>>)>>, <<Reg("__docs__", "pong", <<"C">>)>>}
Builds ==
    [global : Globals, regs : Registrations, fin : {"finish", "finish_unwrapped"}]

\* The per-call contexts.
Metadatas == {0}

\* Typed envelopes for a single call.
Methods == {"ping", "__docs__"}
RequestObjects ==
    {RequestObject(m, ParamsValue(p), id) :
        m \in Methods, p \in {"obj", "str", "arr", "obj_bad"},
        id \in {IdNone, IdSomeNone, Null, Num(1), Str("a")}}

\* Typed envelopes for the members of a list.
BatchRequestObjects ==
    {RequestBuilder_finish("ping", ParamsValue("obj"), Num(1)),
     NotificationBuilder_finish("ping", ParamsValue("obj")),
     RequestBuilder_finish("ping", ParamsValue("str"), Str("a")),
     RequestObject("ping", ParamsValue("obj"), IdSomeNone),
     RequestBuilder_finish("__docs__", ParamsValue("obj"), Num(1))}

\* Sequences over S of length at most n.
RECURSIVE SeqsUpTo(_, _)
SeqsUpTo(S, n) ==
    IF n = 0 THEN {<<>>}
    ELSE SeqsUpTo(S, n - 1) \cup
         {Append(q, x) : q \in {r \in SeqsUpTo(S, n - 1) : Len(r) = n - 1}, x \in S}

\* JSON texts: a value that is no JSON at all is Junk.
Junk == JScalar("junk", 0, "")
SingleValues ==
    {JObj(j, "ping", p, id) :
        j \in {"absent", "2.0", "1.0"}, p \in {"absent", "obj", "str"},
        id \in {JAbsent, Null, Num(1), Str("a")}}
    \cup {JObjEscaped("2.0", "ping", "absent", Str("a"), esc) :
             esc \in {{"jsonrpc"}, {"method"}, {"id"}, {"method", "id"}}}
    \cup {JNum(42), Junk}
BatchValues ==
    {JObj("2.0", "ping", "absent", Num(1)),
     JObj("2.0", "ping", "obj", JAbsent),
     JObj("2.0", "ping", "str", Str("a")),
     JObj("2.0", "ping", "obj", Null),
     JObj("1.0", "ping", "obj", Num(1)),
     JNum(42),
     Junk}

ElemTok(v) == IF v.kind = "junk" THEN Tok("junk") ELSE ValTok(v)

RECURSIVE Commas(_)
Commas(elems) ==
    IF elems = <<>> THEN <<>>
    ELSE IF Len(elems) = 1 THEN <<ElemTok(elems[1])>>
    ELSE <<ElemTok(elems[1]), Tok(",")>> \o Commas(Tail(elems))

\* The bytes of a text: optional leading whitespace, then one value or an
\* array of the elements.
Render(src) ==
    (IF src.ws THEN <<Tok("ws")>> ELSE <<>>)
    \o (IF src.array THEN <<Tok("[")>> \o Commas(src.elems) \o <<Tok("]")>>
        ELSE <<ElemTok(src.elems[1])>>)

\* The batch of a call with id 1, a notification and an element that is no
\* JSON: [{"jsonrpc":"2.0","method":"ping","id":1},
\*        {"jsonrpc":"2.0","method":"ping"}, {"bad json"]
ExampleText ==
    [ws |-> FALSE, array |-> TRUE,
     elems |-> <<JObj("2.0", "ping", "absent", Num(1)),
                 JObj("2.0", "ping", "absent", JAbsent), Junk>>]

\* A batch text with a malformed element before two calls.
MixedText ==
    [ws |-> FALSE, array |-> TRUE,
     elems |-> <<JNum(42), JObj("2.0", "ping", "absent", Num(1)),
                 JObj("2.0", "ping", "str", Str("a"))>>]

Texts ==
    [ws : BOOLEAN, array : {FALSE}, elems : {<<v>> : v \in SingleValues}]
    \cup [ws : BOOLEAN, array : {TRUE}, elems : SeqsUpTo(BatchValues, MaxBatch)]
    \cup {ExampleText, MixedText}

NoText == [ws |-> FALSE, array |-> FALSE, elems |-> <<>>]

\* ------------------------------------------------------------------- state
VARIABLES
    router,       \* Server.router
    middlewares,  \* Server.middlewares
    build,        \* the builder calls that made the server
    displaced,    \* what the builder's last router.insert returned
    pc,           \* "idle", "one", "many", "bytes_one", "bytes_many", "done";
                  \* "building", "built" while the server is being built
    input,        \* the argument of Server::handle and its context
    tasks,        \* the calls of this dispatch (the futures)
    collected,    \* the Vec the batch stream collects, in completion order
    errs,         \* handle_bytes: the entries of the malformed elements
    output        \* the ResponseObjects returned, Pending until then

vars ==
    <<router, middlewares, build, displaced, pc, input, tasks, collected, errs, output>>
server == <<router, middlewares, build, displaced>>

Input(kind, reqs, src, metadata) ==
    [kind |-> kind, reqs |-> reqs, bytes |-> IF kind = "Bytes" THEN Render(src) ELSE <<>>,
     src |-> src, meta |-> metadata]

Init ==
    /\ \E c \in Builds :
          /\ build = c
          /\ router = BuildServer(c).router
          /\ middlewares = BuildServer(c).middlewares
          /\ displaced = BuildDisplaced(c)
    /\ pc = "idle"
    /\ input = Input("None", <<>>, NoText, 0)
    /\ tasks = <<>>
    /\ collected = <<>>
    /\ errs = <<>>
    /\ output = Pending

\* server.rs Server::handle, RequestKind::RequestObject
HandleRequestObject(req, metadata) ==
    /\ pc = "idle"
    /\ input' = Input("RequestObject", <<req>>, NoText, metadata)
    /\ tasks' = <<handle_request_object(router, req, metadata)>>
    /\ pc' = "one"
    /\ UNCHANGED <<server, collected, errs, output>>

\* server.rs Server::handle, RequestKind::ManyRequestObjects
HandleManyRequestObjects(reqs, metadata) ==
    /\ pc = "idle"
    /\ input' = Input("ManyRequestObjects", reqs, NoText, metadata)
    /\ tasks' = Futures(router, reqs, metadata)
    /\ pc' = "many"
    /\ UNCHANGED <<server, collected, errs, output>>

\* server.rs Server::handle, RequestKind::Bytes
HandleBytes(src, metadata) ==
    /\ pc = "idle"
    /\ input' = Input("Bytes", <<>>, src, metadata)
    /\ LET h == handle_bytes(router, Render(src), metadata) IN
          /\ pc' = h.pc
          /\ tasks' = h.tasks
          /\ errs' = h.errs
          /\ output' = h.output
    /\ UNCHANGED <<server, collected>>

Running == pc \in {"one", "many", "bytes_one", "bytes_many"}

\* Calls that hold one context between them: what a member's chain makes of
\* it is what the others hold.
Collect_shared(k, t) ==
    /\ tasks' = [j \in 1..Len(tasks) |->
                    IF j = k THEN t ELSE [tasks[j] EXCEPT !.meta = t.meta]]
    /\ collected' = IF t.st = "done" /\ t.out.shape = "One"
                    THEN Append(collected, t.out.one) ELSE collected

\* A stream that keeps only the reply that arrived last.
Collect_latest(k, t) ==
    /\ tasks' = [tasks EXCEPT ![k] = t]
    /\ collected' = IF t.st = "done" /\ t.out.shape = "One"
                    THEN <<t.out.one>> ELSE collected

\* A call that reached its reply hands it to the stream: filter_map keeps
\* the One replies, collect pushes them in completion order.
Collect(k, t) ==
    /\ tasks' = [tasks EXCEPT ![k] = t]
    /\ collected' = IF t.st = "done" /\ t.out.shape = "One"
                    THEN Append(collected, t.out.one) ELSE collected

\* The first poll of call k, whose route has middlewares: it enters the
\* first of them.
RunMiddleware(k) ==
    /\ Running
    /\ tasks[k].st = "run"
    /\ tasks[k].next_middleware # <<>>
    /\ Collect(k, Next_run(tasks[k]))
    /\ UNCHANGED <<server, pc, input, errs, output>>

\* The first poll of call k, whose route has no middleware: it enters the
\* endpoint.
RunEndpoint(k) ==
    /\ Running
    /\ tasks[k].st = "run"
    /\ tasks[k].next_middleware = <<>>
    /\ Collect(k, Next_run(tasks[k]))
    /\ UNCHANGED <<server, pc, input, errs, output>>

\* A poll of call k when the future of the closure it is inside is ready:
\* the closure's error ends the call, otherwise the call goes on into the
\* next middleware or the endpoint.
ResumeMiddleware(k) ==
    /\ Running
    /\ tasks[k].st = "in_middleware"
    /\ Collect(k, Middleware_handle(Current(tasks[k]), tasks[k]))
    /\ UNCHANGED <<server, pc, input, errs, output>>

\* A poll of call k when the future of the function it is inside is ready.
ResumeHandler(k) ==
    /\ Running
    /\ tasks[k].st = "in_handler"
    /\ Collect(k, Factory_returned(tasks[k]))
    /\ UNCHANGED <<server, pc, input, errs, output>>

\* One poll of call k whose future was ready (method not found).
PollReady(k) ==
    /\ Running
    /\ tasks[k].st = "ready"
    /\ Collect(k, Completed(tasks[k], tasks[k].res))
    /\ UNCHANGED <<server, pc, input, errs, output>>

\* A stream that ends with the first call that completes.
AnyDone == \E k \in 1..Len(tasks) : tasks[k].st = "done"

\* server.rs handle_many_request_objects: collect ends when the stream of
\* all the futures has ended.
AllDone == \A k \in 1..Len(tasks) : tasks[k].st = "done"

\* server.rs handle, line 154: the single call's reply becomes the result.
RespondOne ==
    /\ pc = "one"
    /\ AllDone
    /\ output' = FromSingle(tasks[1].out)
    /\ pc' = "done"
    /\ UNCHANGED <<server, input, tasks, collected, errs>>

\* server.rs handle, line 157: the stream ended, the list becomes the result.
RespondMany ==
    /\ pc = "many"
    /\ AllDone
    /\ output' = FromMany(collect_many(collected))
    /\ pc' = "done"
    /\ UNCHANGED <<server, input, tasks, collected, errs>>

\* server.rs handle_bytes, lines 261-266
RespondBytesOne ==
    /\ pc = "bytes_one"
    /\ AllDone
    /\ output' = single_from_bytes(tasks[1].out)
    /\ pc' = "done"
    /\ UNCHANGED <<server, input, tasks, collected, errs>>

\* server.rs handle_bytes, lines 240-255
RespondBytesMany ==
    /\ pc = "bytes_many"
    /\ AllDone
    /\ output' = extend_with_errs(collect_many(collected), errs)
    /\ pc' = "done"
    /\ UNCHANGED <<server, input, tasks, collected, errs>>

Next ==
    \/ \E req \in RequestObjects, m \in Metadatas : HandleRequestObject(req, m)
    \/ \E reqs \in SeqsUpTo(BatchRequestObjects, MaxBatch), m \in Metadatas :
          HandleManyRequestObjects(reqs, m)
    \/ \E src \in Texts, m \in Metadatas : HandleBytes(src, m)
    \/ \E k \in 1..Len(tasks) : RunMiddleware(k)
    \/ \E k \in 1..Len(tasks) : RunEndpoint(k)
    \/ \E k \in 1..Len(tasks) : ResumeMiddleware(k)
    \/ \E k \in 1..Len(tasks) : ResumeHandler(k)
    \/ \E k \in 1..Len(tasks) : PollReady(k)
    \/ RespondOne
    \/ RespondMany
    \/ RespondBytesOne
    \/ RespondBytesMany

Spec == Init /\ [][Next]_vars

\* ----------------------------------------------------------------- builder
\* The names, handlers and own middleware lists the registrations draw from.
RegNames == {"ping", "__docs__"}
RegHandlers == {"pong", "fail"}
RegMiddlewares == {<<>>, <<"C">>}

\* server.rs Server::new: an empty router, no doc routes, the global
\* middlewares.
BuilderInit ==
    /\ \E g \in Globals :
          /\ build = [global |-> g, regs |-> <<>>, fin |-> "building"]
          /\ router = Server_new(g).router
          /\ middlewares = Server_new(g).middlewares
    /\ displaced = MapRouter_get(MapRouter_default, "")
    /\ pc = "building"
    /\ input = Input("None", <<>>, NoText, 0)
    /\ tasks = <<>>
    /\ collected = <<>>
    /\ errs = <<>>
    /\ output = Pending

\* server.rs ServerBuilder: the builder as it stands.
Builder ==
    [router |-> router,
     routes |-> [i \in 1..Len(build.regs) |-> build.regs[i].name],
     middlewares |-> middlewares]

\* server.rs ServerBuilder::with_method_middleware
WithMethodMiddleware(name, handler, mws) ==
    /\ pc = "building"
    /\ Len(build.regs) < MaxInserts
    /\ router' = with_method_middleware(Builder, name, handler, mws).router
    /\ displaced' = MapRouter_insert(router, name,
                                     Route(handler, mws \o middlewares)).displaced
    /\ build' = [build EXCEPT !.regs = Append(@, Reg(name, handler, mws))]
    /\ UNCHANGED <<middlewares, pc, input, tasks, collected, errs, output>>

\* server.rs ServerBuilder::finish
Finish ==
    /\ pc = "building"
    /\ router' = finish(Builder).router
    /\ middlewares' = finish(Builder).middlewares
    /\ displaced' = MapRouter_insert(router, "__docs__", Route("docs", <<>>)).displaced
    /\ build' = [build EXCEPT !.fin = "finish"]
    /\ pc' = "built"
    /\ UNCHANGED <<input, tasks, collected, errs, output>>

\* server.rs ServerBuilder::finish_unwrapped
FinishUnwrapped ==
    /\ pc = "building"
    /\ router' = finish_unwrapped(Builder).router
    /\ middlewares' = finish_unwrapped(Builder).middlewares
    /\ build' = [build EXCEPT !.fin = "finish_unwrapped"]
    /\ pc' = "built"
    /\ UNCHANGED <<displaced, input, tasks, collected, errs, output>>

BuilderNext ==
    \/ \E name \in RegNames, handler \in RegHandlers, mws \in RegMiddlewares :
          WithMethodMiddleware(name, handler, mws)
    \/ Finish
    \/ FinishUnwrapped

SpecBuilder == BuilderInit /\ [][BuilderNext]_vars

\* ================================================================== claims
\* The input is one request: a typed envelope, or a text holding one JSON
\* object with the version literal "2.0" (written as such, without escape
\* sequences).
SingleTyped == input.kind = "RequestObject"
SingleText ==
    /\ input.kind = "Bytes"
    /\ ~input.src.array
    /\ input.src.elems[1].kind = "obj"
    /\ input.src.elems[1].jsonrpc = "2.0"
    /\ "jsonrpc" \notin input.src.elems[1].esc

\* The id the caller wrote, as it stands in the input.
GivenId == IF SingleTyped THEN input.reqs[1].id ELSE input.src.elems[1].id

\* C1: a single request (typed or raw) that carries a concrete id gets
\* exactly one response object, whatever the outcome of routing, middleware
\* and handler, and the response's id is the request's id.
C1_ConcreteIdOneReply ==
    (pc = "done" /\ (SingleTyped \/ SingleText) /\ IsConcrete(GivenId))
        => /\ output.shape = "One"
           /\ output.one.kind \in {"result", "error"}
           /\ output.one.id = GivenId

\* C1 witness: a call with a string id went through the id-rewriting
\* middleware C and was answered under the caller's id.
C1_Witness ==
    /\ pc = "done"
    /\ SingleTyped
    /\ GivenId = Str("a")
    /\ \E p \in 1..Len(tasks[1].trace) : tasks[1].trace[p].who = "C"
    /\ tasks[1].req.id = Num(9)
    /\ output.shape = "One"
    /\ output.one.id = Str("a")

C3_NullIdNoBody ==
    (pc = "done" /\ (SingleTyped \/ SingleText) /\ GivenId.k \in {"somenone", "null"})
        => output = ResponseObjects_Empty

\* C3 witness: a call with "id": null reached its handler, which succeeded,
\* and ended without body.
C3_Witness ==
    /\ pc = "done"
    /\ SingleText
    /\ GivenId.k = "null"
    /\ tasks[1].res = Ok("pong")
    /\ output = ResponseObjects_Empty

\* The names of the middlewares a call entered, in order.
IsMiddlewareEntry(e) == e.who \in {"A", "B", "C"}
Entered(t) ==
    [p \in 1..Len(SelectSeq(t.trace, IsMiddlewareEntry)) |->
        SelectSeq(t.trace, IsMiddlewareEntry)[p].who]

IsPrefix(a, b) == Len(a) <= Len(b) /\ a = SubSeq(b, 1, Len(a))

\* The middleware list the last registration of a name gave its route.
OwnMiddlewares(name) ==
    LET regs == build.regs
        idx == {i \in 1..Len(regs) : regs[i].name = name}
    IN IF idx = {} THEN <<>>
       ELSE regs[CHOOSE i \in idx : \A j \in idx : j <= i].mws

\* The route of a call is the one the user registered (not the built-in
\* documentation route that finish() puts under "__docs__").
UserRoute(t) ==
    /\ t.found
    /\ \E i \in 1..Len(build.regs) : build.regs[i].name = t.req.method
    /\ ~(build.fin = "finish" /\ t.req.method = "__docs__")

\* C4: on a server with global middlewares [A, B], a call to a route
\* registered with its own list [C] enters A, then B, then C, then the
\* handler.
C4_GlobalMiddlewaresFirst ==
    \A k \in 1..Len(tasks) :
        (/\ build.global = <<"A", "B">>
         /\ UserRoute(tasks[k])
         /\ OwnMiddlewares(tasks[k].req.method) = <<"C">>)
            => IsPrefix(Entered(tasks[k]), <<"A", "B", "C">>)

\* The closure entered at step p of the call's trace has returned: the call
\* went on to a later step, or is no longer inside a closure.
HasReturned(t, p) == p < Len(t.trace) \/ t.st # "in_middleware"

\* The position of the first middleware entry whose closure returned an
\* error, or 0.
FailedAt(t) ==
    LET bad == {p \in 1..Len(t.trace) :
                   /\ IsMiddlewareEntry(t.trace[p])
                   /\ HasReturned(t, p)
                   /\ ~MiddlewareFn(t.trace[p].who, t.req, t.trace[p].meta).ok}
    IN IF bad = {} THEN 0 ELSE CHOOSE p \in bad : \A q \in bad : p <= q

\* C5: when a middleware of a call's chain returns an error without running
\* its continuation, nothing later in the chain and not the handler is
\* entered, the call's outcome is that middleware's error, and a call with a
\* concrete id is answered with that error.
C5_ShortCircuit ==
    \A k \in 1..Len(tasks) :
        FailedAt(tasks[k]) # 0 =>
            LET t == tasks[k]
                e == MiddlewareFn(t.trace[FailedAt(t)].who, t.req,
                                  t.trace[FailedAt(t)].meta).err
            IN /\ FailedAt(t) = Len(t.trace)
               /\ t.st = "done"
               /\ t.res = Err(e)
               /\ (IsConcrete(t.opt_id) => t.out = One(ResponseObject_error(e, t.opt_id)))
               /\ (pc = "done" /\ SingleTyped /\ IsConcrete(GivenId))
                     => output = ResponseObjects_One(ResponseObject_error(e, GivenId))

\* C5 witness: B rejected a call with a concrete id after A had delegated;
\* the call was answered with B's error.
C5_Witness ==
    /\ pc = "done"
    /\ SingleTyped
    /\ IsConcrete(GivenId)
    /\ FailedAt(tasks[1]) = Len(tasks[1].trace)
    /\ Len(tasks[1].trace) >= 2
    /\ tasks[1].trace[Len(tasks[1].trace)].who = "B"
    /\ output.one.error = Rejected

\* C6: the text "[]" gets exactly one top-level Invalid Request error
\* response with id null: a single response object, no list, not no-body.
C6_EmptyArrayText ==
    (pc = "done" /\ input.kind = "Bytes" /\ input.bytes = <<Tok("["), Tok("]")>>)
        => output = ResponseObjects_One(ResponseObject_error(INVALID_REQUEST, Null))

\* C6 witness: the text "[]" was handled.
C6_Witness ==
    /\ pc = "done"
    /\ input.kind = "Bytes"
    /\ input.src.array
    /\ ~input.src.ws
    /\ input.src.elems = <<>>
    /\ output.shape = "One"
    /\ output.one.error.code = -32600

\* C7: a typed list of zero envelopes gets a single top-level Invalid
\* Request error response, not an empty batch and not the no-body result.
C7_EmptyTypedList ==
    (pc = "done" /\ input.kind = "ManyRequestObjects" /\ input.reqs = <<>>)
        => output = ResponseObjects_One(ResponseObject_error(INVALID_REQUEST, Null))

\* The input is a text that parses as a non-empty array.
BatchText ==
    /\ input.kind = "Bytes"
    /\ input.src.array
    /\ ~input.src.ws
    /\ input.src.elems # <<>>
    /\ \A i \in 1..Len(input.src.elems) : input.src.elems[i].kind # "junk"

\* The elements of the array that deserialize as request envelopes, and the
\* number of those that do not.
IsEnvelope(v) == from_str_BytesRequestObject(<<ElemTok(v)>>).ok
IsMalformed(v) == ~IsEnvelope(v)
Envelopes == SelectSeq(input.src.elems, IsEnvelope)
MalformedCount == Len(SelectSeq(input.src.elems, IsMalformed))
HasConcreteId(v) == IsConcrete(v.id)

\* The entries of the result: those of a list, none otherwise.
Entries == IF output.shape = "Many" THEN output.many ELSE <<>>

\* A sequence as a multiset.
BagOf(q) ==
    [x \in {q[i] : i \in 1..Len(q)} |-> Cardinality({i \in 1..Len(q) : q[i] = x})]

RECURSIVE RunAlone(_)
\* A call run to its end with nothing else in between.
RunAlone(t) ==
    IF t.st = "done" THEN t
    ELSE IF t.st = "ready" THEN Completed(t, t.res)
    ELSE IF t.st = "in_middleware" THEN RunAlone(Middleware_handle(Current(t), t))
    ELSE IF t.st = "in_handler" THEN RunAlone(Factory_returned(t))
    ELSE RunAlone(Next_run(t))

\* The reply the envelope of element v gets when it is dispatched alone.
ReplyAlone(v) ==
    RunAlone(handle_request_object(router,
                 from_str_BytesRequestObject(<<ElemTok(v)>>).req, input.meta)).out

IsAnswered(v) == ReplyAlone(v).shape = "One"
Answers ==
    [i \in 1..Len(SelectSeq(Envelopes, IsAnswered)) |->
        ReplyAlone(SelectSeq(Envelopes, IsAnswered)[i]).one]

InvalidRequestEntry == ResponseObject_error(INVALID_REQUEST, Null)
Invalids(n) == [i \in 1..n |-> InvalidRequestEntry]

\* C8: for a raw batch of N elements of which M deserialize as envelopes,
\* the result has (envelopes with a concrete id) + (N - M) entries, and the
\* multiset of entries is the same whatever order the members completed in.
C8_BatchCount ==
    (pc = "done" /\ BatchText)
        => /\ Len(Entries) = Len(SelectSeq(Envelopes, HasConcreteId)) + MalformedCount
           /\ BagOf(Entries) = BagOf(Answers \o Invalids(MalformedCount))

\* C8 witness: a batch of two calls whose replies differ was answered
\* with both replies, the second member having completed first.
C8_Witness ==
    /\ pc = "done"
    /\ BatchText
    /\ MalformedCount = 0
    /\ Len(tasks) = 2
    /\ Len(Entries) = 2
    /\ Entries[1] = tasks[2].out.one
    /\ Entries[2] = tasks[1].out.one
    /\ Entries[1] # Entries[2]

\* The members of a non-empty batch are all notifications (typed envelopes
\* without id; elements that are envelopes without id).
AllNotifications ==
    \/ /\ input.kind = "ManyRequestObjects"
       /\ input.reqs # <<>>
       /\ \A i \in 1..Len(input.reqs) : input.reqs[i].id = IdNone
    \/ /\ BatchText
       /\ \A i \in 1..Len(input.src.elems) :
             IsEnvelope(input.src.elems[i]) /\ input.src.elems[i].id = JAbsent

\* C9: a non-empty batch of notifications only gets the no-body result, not
\* a list, and a list result is never the empty list.
C9_NoEmptyList ==
    /\ (pc = "done" /\ AllNotifications) => output = ResponseObjects_Empty
    /\ output.shape = "Many" => output.many # <<>>

\* C9 witness: a raw batch of two notifications whose handler ran ended
\* without body.
C9_Witness ==
    /\ pc = "done"
    /\ BatchText
    /\ AllNotifications
    /\ Len(tasks) = 2
    /\ \A k \in 1..2 : tasks[k].res = Ok("pong")
    /\ output = ResponseObjects_Empty

IsInvalidRequestEntry(e) == e = InvalidRequestEntry
IsOtherEntry(e) == e # InvalidRequestEntry

\* C10: in a raw batch every well-formed element that fails envelope
\* deserialization adds exactly one Invalid Request entry with id null, and
\* every envelope beside it is dispatched and answered as it is without the
\* malformed elements.
C10_MalformedSiblings ==
    (pc = "done" /\ BatchText)
        => /\ Len(SelectSeq(Entries, IsInvalidRequestEntry)) = MalformedCount
           /\ Len(tasks) = Len(Envelopes)
           /\ \A k \in 1..Len(tasks) :
                 tasks[k].out = ReplyAlone(Envelopes[k])
           /\ BagOf(SelectSeq(Entries, IsOtherEntry)) = BagOf(Answers)

\* C10 witness: a batch of a bad-version object and a call with a concrete
\* id; the call reached its handler and was answered, beside one Invalid
\* Request entry.
C10_Witness ==
    /\ pc = "done"
    /\ BatchText
    /\ MalformedCount = 1
    /\ Len(tasks) = 1
    /\ tasks[1].res = Ok("pong")
    /\ Entries = <<tasks[1].out.one, InvalidRequestEntry>>

\* C11: the batch of a call with id 1 to a registered method, a
\* notification to it and a third element that is no JSON yields a list of
\* exactly two entries, the success response with id 1 and one Invalid
\* Request entry with id null.
C11_ExampleBatch ==
    (/\ pc = "done"
     /\ input.kind = "Bytes"
     /\ input.src = ExampleText
     /\ MapRouter_get(router, "ping").some
     /\ MapRouter_get(router, "ping").route.handler = "pong")
        => /\ output.shape = "Many"
           /\ BagOf(output.many) =
                 BagOf(<<ResponseObject_result("pong", Num(1)), InvalidRequestEntry>>)

\* The text does not parse: one of its elements is no JSON value.
Unparsable ==
    /\ input.kind = "Bytes"
    /\ \E i \in 1..Len(input.src.elems) : input.src.elems[i].kind = "junk"

ParseErrorResponse == ResponseObjects_One(ResponseObject_error(PARSE_ERROR, Null))

\* C12: a text that fails to parse gets exactly one top-level Parse Error
\* response (code -32700, id null) as a single response object, and no
\* middleware or handler is invoked for any part of it.
C12_ParseError ==
    Unparsable => /\ pc = "done"
                  /\ output = ParseErrorResponse
                  /\ tasks = <<>>
                  /\ collected = <<>>
                  /\ errs = <<>>

\* C12 witness: an array of a call and an element that is no JSON was
\* answered with the Parse Error response.
C12_Witness ==
    /\ Unparsable
    /\ input.src.array
    /\ Len(input.src.elems) = 2
    /\ IsEnvelope(input.src.elems[1])
    /\ output = ParseErrorResponse

\* The call's method is not in the registry.
Unregistered(t) == t.req.method \notin DOMAIN router

\* C13: a call with a concrete id to a method name that is not registered
\* gets exactly one error response with code -32601 and message "Method not
\* found" under the caller's id, and no middleware or handler is invoked.
C13_MethodNotFound ==
    /\ \A k \in 1..Len(tasks) :
          Unregistered(tasks[k]) =>
             /\ tasks[k].trace = <<>>
             /\ (tasks[k].st = "done" /\ IsConcrete(tasks[k].opt_id)) =>
                   tasks[k].out =
                      One(ResponseObject_error(
                              [code |-> -32601, message |-> "Method not found"],
                              tasks[k].opt_id))
    /\ (pc = "done" /\ (SingleTyped \/ SingleText) /\ IsConcrete(GivenId)
          /\ Unregistered(tasks[1])) =>
             output = ResponseObjects_One(ResponseObject_error(
                          [code |-> -32601, message |-> "Method not found"], GivenId))

\* C13 witness: on a server with global middlewares a call with id "a" to an
\* unregistered method was answered Method not found.
C13_Witness ==
    /\ pc = "done"
    /\ SingleTyped
    /\ GivenId = Str("a")
    /\ middlewares # <<>>
    /\ Unregistered(tasks[1])
    /\ output.one.error.code = -32601
    /\ output.one.id = Str("a")

\* The call entered its endpoint and the extractor of its handler cannot
\* decode the params it holds.
EndpointEntered(t) == \E p \in 1..Len(t.trace) : t.trace[p].who = "endpoint"
HandlerInvoked(t) == \E p \in 1..Len(t.trace) : t.trace[p].who = t.endpoint
ExtractorFails(t) ==
    /\ t.found
    /\ EndpointEntered(t)
    /\ ~Decodes(ExtractorOf(t.endpoint),
                IF t.req.params.form = "none" THEN "null" ELSE t.req.params.v)

\* C14: a call with a concrete id to a registered method whose parameter
\* extractor fails to decode the params gets an error response with code
\* -32602, and the handler function is never invoked for it.
C14_InvalidParams ==
    /\ \A k \in 1..Len(tasks) :
          ExtractorFails(tasks[k]) =>
             /\ ~HandlerInvoked(tasks[k])
             /\ tasks[k].st = "done"
             /\ tasks[k].res.err.code = -32602
             /\ IsConcrete(tasks[k].opt_id) =>
                   /\ tasks[k].out.shape = "One"
                   /\ tasks[k].out.one.kind = "error"
                   /\ tasks[k].out.one.error.code = -32602
                   /\ tasks[k].out.one.id = tasks[k].opt_id
    /\ (pc = "done" /\ (SingleTyped \/ SingleText) /\ IsConcrete(GivenId)
          /\ ExtractorFails(tasks[1])) =>
             /\ output.shape = "One"
             /\ output.one.error.code = -32602
             /\ output.one.id = GivenId

\* C14 witness: a call with id 1 and a string for params went through the
\* route's middleware into the endpoint and was answered Invalid params.
C14_Witness ==
    /\ pc = "done"
    /\ SingleText
    /\ GivenId = Num(1)
    /\ ExtractorFails(tasks[1])
    /\ Len(tasks[1].trace) = 2
    /\ tasks[1].trace[1].who = "C"
    /\ output.one.error = INVALID_PARAMS

\* The input is a batch whose members were dispatched concurrently.
BatchInput ==
    \/ input.kind = "ManyRequestObjects" /\ input.reqs # <<>>
    \/ BatchText

\* C15: the result of a batch is produced only after every member has
\* completed: in no interleaving is there a result while the middleware
\* chain or the handler of some member is still to run.
C15_BatchJoin ==
    (BatchInput /\ output # Pending)
        => /\ pc = "done"
           /\ \A k \in 1..Len(tasks) : tasks[k].st = "done"

\* C15 witness: a batch of two calls, both through a middleware and the
\* endpoint, has its result.
C15_Witness ==
    /\ BatchInput
    /\ output.shape = "Many"
    /\ Len(tasks) = 2
    /\ \A k \in 1..2 : tasks[k].st = "done" /\ Len(tasks[k].trace) >= 2

\* The number of entries of the result under the id, and of members that
\* sent it.
EntriesWithId(id) == Cardinality({i \in 1..Len(Entries) : Entries[i].id = id})
MembersWithId(id) == Cardinality({k \in 1..Len(tasks) : tasks[k].opt_id = id})
ConcreteEntries == {i \in 1..Len(Entries) : IsConcrete(Entries[i].id)}
ConcreteMembers == {k \in 1..Len(tasks) : IsConcrete(tasks[k].opt_id)}

\* C16: in a batch, under every interleaving of its members, each member
\* with a concrete id has exactly one entry of the result under its id (as
\* many entries under an id as members that sent it), and the members
\* without a reply-expecting id have none.
C16_OneEntryEach ==
    (pc = "done" /\ BatchInput)
        => /\ \A k \in ConcreteMembers :
                 EntriesWithId(tasks[k].opt_id) = MembersWithId(tasks[k].opt_id)
           /\ Cardinality(ConcreteEntries) = Cardinality(ConcreteMembers)
           /\ Len(Entries) = Cardinality(ConcreteMembers) + Len(errs)

\* C16 witness: a typed batch of a call and a notification, the notification
\* having completed before the call, has the one entry of the call.
C16_Witness ==
    /\ pc = "done"
    /\ input.kind = "ManyRequestObjects"
    /\ Len(tasks) = 2
    /\ tasks[1].opt_id = Num(1)
    /\ ~IsConcrete(tasks[2].opt_id)
    /\ tasks[2].trace # <<>>
    /\ Entries = <<tasks[1].out.one>>

\* C16 second case: two members under different ids completed in reverse
\* order and each has its entry.
C16_WitnessReversed ==
    /\ pc = "done"
    /\ input.kind = "ManyRequestObjects"
    /\ Len(tasks) = 2
    /\ tasks[1].opt_id = Num(1)
    /\ tasks[2].opt_id = Str("a")
    /\ Entries = <<tasks[2].out.one, tasks[1].out.one>>

\* The input is a text holding one JSON object.
SingleObject ==
    /\ input.kind = "Bytes"
    /\ ~input.src.array
    /\ input.src.elems[1].kind = "obj"

\* C17: a raw request object whose jsonrpc member is absent or is not the
\* string "2.0" fails envelope deserialization, is reported as Invalid
\* Request and reaches no handler.
C17_VersionRequired ==
    (SingleObject /\ input.src.elems[1].jsonrpc # "2.0")
        => /\ pc = "done"
           /\ output = ResponseObjects_One(ResponseObject_error(INVALID_REQUEST, Null))
           /\ tasks = <<>>

\* The same envelope sent as a call under the id 1.
AsCall(req) == [req EXCEPT !.id = Num(1)]

\* The envelope a call set out with (its id aside, the chain may rewrite
\* only that here).
SentBy(t) == [t.req EXCEPT !.id = t.opt_id]

\* The call is a notification to a registered method that has completed.
NotificationDone(t) ==
    /\ ~Unregistered(t)
    /\ ~IsConcrete(t.opt_id)
    /\ t.st = "done"

\* C18: a notification to a registered method runs the method's middleware
\* chain and handler to completion as a call would (the same steps entered,
\* the same result computed), and no response is emitted for it.
C18_NotificationRuns ==
    /\ \A k \in 1..Len(tasks) :
          (~Unregistered(tasks[k]) /\ ~IsConcrete(tasks[k].opt_id)) =>
             /\ tasks[k].found
             /\ tasks[k].st = "done" =>
                   LET twin == RunAlone(handle_request_object(
                                   router, AsCall(SentBy(tasks[k])), input.meta))
                   IN /\ tasks[k].trace = twin.trace
                      /\ tasks[k].res = twin.res
                      /\ tasks[k].out = Empty
    /\ (pc = "done" /\ \A k \in 1..Len(tasks) : ~Unregistered(tasks[k])) =>
          \A k \in 1..Len(tasks) : tasks[k].st = "done"
    /\ (pc = "done" /\ (SingleTyped \/ SingleText) /\ NotificationDone(tasks[1])) =>
          output = ResponseObjects_Empty

\* C18 witness: a notification went through its middleware into the
\* handler, which failed, and the dispatch ended without body.
C18_Witness ==
    /\ pc = "done"
    /\ SingleTyped
    /\ GivenId = IdNone
    /\ NotificationDone(tasks[1])
    /\ HandlerInvoked(tasks[1])
    /\ tasks[1].res = Err(Boom)
    /\ output = ResponseObjects_Empty

\* C18 witness of the success case: a notification beside a call in a batch
\* ran its middleware and handler.
C18_WitnessBatch ==
    /\ pc = "done"
    /\ input.kind = "ManyRequestObjects"
    /\ Len(tasks) = 2
    /\ NotificationDone(tasks[2])
    /\ IsConcrete(tasks[1].opt_id)
    /\ Len(tasks[2].trace) >= 3
    /\ tasks[2].res = Ok("pong")
    /\ Len(Entries) = 1

\* The context a call holds after the step of entry e.
AfterEntry(t, e) ==
    IF IsMiddlewareEntry(e) THEN MiddlewareFn(e.who, t.req, e.meta).meta ELSE e.meta

\* C19: every member of a batch enters its chain with the context supplied
\* to the dispatch; nothing but the member's own middlewares changes the
\* context it holds, so a change made in one member's chain is not seen by
\* another.
C19_ContextPerCall ==
    \A k \in 1..Len(tasks) :
        LET t == tasks[k] IN
        /\ t.trace = <<>> => t.meta = input.meta
        /\ t.trace # <<>> =>
              /\ t.trace[1].meta = input.meta
              /\ t.meta = IF HasReturned(t, Len(t.trace))
                          THEN AfterEntry(t, t.trace[Len(t.trace)])
                          ELSE t.trace[Len(t.trace)].meta
        /\ \A p \in 1..(Len(t.trace) - 1) :
              t.trace[p + 1].meta = AfterEntry(t, t.trace[p])

\* C19 witness: in a batch of two the first member's chain has changed its
\* context while the second has not started and holds the supplied one.
C19_Witness ==
    /\ BatchInput
    /\ Len(tasks) = 2
    /\ tasks[1].meta # input.meta
    /\ tasks[2].trace = <<>>
    /\ tasks[2].st = "run"
    /\ tasks[2].meta = input.meta

\* The insert calls made on the registry so far, in order: one a
\* registration, and the documentation route's when finish ran.
Insertion(name, route) == [name |-> name, route |-> route]
Insertions ==
    [i \in 1..Len(build.regs) |->
        Insertion(build.regs[i].name,
                  Route(build.regs[i].handler, build.regs[i].mws \o build.global))]
    \o (IF build.fin = "finish"
        THEN <<Insertion("__docs__", Route("docs", <<>>))>> ELSE <<>>)

\* The route of the last of the insertions h under the name, if any.
LastUnder(h, name) ==
    LET idx == {i \in 1..Len(h) : h[i].name = name}
    IN IF idx = {} THEN [some |-> FALSE, route |-> NoRoute]
       ELSE [some |-> TRUE,
             route |-> h[CHOOSE i \in idx : \A j \in idx : j <= i].route]

\* C20: after any sequence of insertions a lookup of a name returns the
\* route of the most recent insertion under it, or not-found if there was
\* none, and each insertion returns the route it displaced, or nothing when
\* the name was unused.
C20_Overwrite ==
    /\ \A name \in RegNames \cup {"other"} :
          MapRouter_get(router, name) = LastUnder(Insertions, name)
    /\ Insertions # <<>> =>
          displaced = LastUnder(SubSeq(Insertions, 1, Len(Insertions) - 1),
                                Insertions[Len(Insertions)].name)

\* C20 witness: a name was registered three times with three different
\* routes; the lookup gives the third and the last insertion returned the
\* second.
C20_Witness ==
    /\ pc = "building"
    /\ Len(build.regs) = 3
    /\ \A i \in 1..3 : build.regs[i].name = "ping"
    /\ Insertions[1].route # Insertions[2].route
    /\ Insertions[2].route # Insertions[3].route
    /\ MapRouter_get(router, "ping").route = Insertions[3].route
    /\ displaced = [some |-> TRUE, route |-> Insertions[2].route]
    /\ ~MapRouter_get(router, "__docs__").some

\* The middleware list of the route a call was given.
RouteList(t) == MapRouter_get(router, t.req.method).route.middlewares

\* The number of steps of a call's trace that entered the handler function.
HandlerCalls(t) == Cardinality({p \in 1..Len(t.trace) : t.trace[p].who = t.endpoint})

\* C21: within one routed call the steps are sequential: the middlewares
\* are entered one from the continuation of the other in the order of the
\* route's list, the handler is invoked at most once and only after every
\* middleware of the list has delegated, and the chain has exactly one
\* outcome, a result or an error.
C21_Sequential ==
    \A k \in 1..Len(tasks) :
        LET t == tasks[k]
            n == Len(Entered(t))
        IN t.found =>
            /\ n <= Len(RouteList(t))
            /\ \A p \in 1..n : t.trace[p].who = RouteList(t)[p]
            /\ t.next_middleware = SubSeq(RouteList(t), n + 1, Len(RouteList(t)))
            /\ Len(t.trace) <= n + 2
            /\ Len(t.trace) > n =>
                  /\ t.trace[n + 1].who = "endpoint"
                  /\ n = Len(RouteList(t))
                  /\ FailedAt(t) = 0
                  /\ t.st \in {"in_handler", "done"}
            /\ Len(t.trace) = n + 2 => t.trace[n + 2].who = t.endpoint
            /\ HandlerCalls(t) <= 1
            /\ t.st \in {"run", "in_middleware", "in_handler", "done"}
            /\ t.st = "run" => t.trace = <<>>
            /\ t.st = "in_middleware" => Len(t.trace) = n /\ n >= 1
            /\ t.st = "in_handler" => Len(t.trace) = n + 2
            /\ t.st # "done" => t.res = NoResult /\ t.out = Empty
            /\ t.st = "done" =>
                  /\ t.res # NoResult
                  /\ t.res.ok => t.res.err = NoError
                  /\ ~t.res.ok => t.res.val = "" /\ t.res.err # NoError

\* C21 witness: a call went through the three middlewares of its route and
\* the endpoint into the handler, once, and has its one result.
C21_Witness ==
    \E k \in 1..Len(tasks) :
        /\ tasks[k].found
        /\ Len(RouteList(tasks[k])) = 3
        /\ Len(tasks[k].trace) = 5
        /\ HandlerCalls(tasks[k]) = 1
        /\ tasks[k].st = "done"
        /\ tasks[k].res = Ok("pong")

\* The input is a text holding a non-empty JSON array of well-formed
\* values, with insignificant whitespace before the '['.
WhitespaceBatchText ==
    /\ input.kind = "Bytes"
    /\ input.src.array
    /\ input.src.ws
    /\ input.src.elems # <<>>
    /\ \A i \in 1..Len(input.src.elems) : input.src.elems[i].kind # "junk"

\* C22: a JSON array of request objects is processed as a batch, each
\* element dispatched separately, also when insignificant whitespace comes
\* before its '['.
C22_WhitespaceBatch ==
    (pc = "done" /\ WhitespaceBatchText)
        => /\ Len(tasks) = Len(Envelopes)
           /\ BagOf(Entries) = BagOf(Answers \o Invalids(MalformedCount))

\* The registrations the user made under the name, as insertions.
UserInsertions ==
    [i \in 1..Len(build.regs) |->
        Insertion(build.regs[i].name,
                  Route(build.regs[i].handler, build.regs[i].mws \o build.global))]

\* C23: after finish() the name "__docs__" resolves to the built-in
\* documentation handler with an empty middleware list, whatever route the
\* user registered under it, and a call to it runs none of the server's
\* global middlewares; after finish_unwrapped() no such route is added.
C23_DocsRoute ==
    /\ build.fin = "finish" =>
          /\ MapRouter_get(router, "__docs__") =
                [some |-> TRUE, route |-> Route("docs", <<>>)]
          /\ \A k \in 1..Len(tasks) :
                tasks[k].req.method = "__docs__" =>
                   /\ tasks[k].found
                   /\ tasks[k].endpoint = "docs"
                   /\ Entered(tasks[k]) = <<>>
                   /\ tasks[k].next_middleware = <<>>
    /\ build.fin = "finish_unwrapped" =>
          /\ MapRouter_get(router, "__docs__") = LastUnder(UserInsertions, "__docs__")
          /\ \A k \in 1..Len(tasks) : tasks[k].endpoint # "docs"

\* C23 witness: on a server with global middlewares whose user registered
\* "__docs__" with a middleware of its own, finish() was called and a call
\* to "__docs__" went straight into the documentation handler.
C23_Witness ==
    /\ pc = "done"
    /\ build.fin = "finish"
    /\ build.global = <<"A", "B">>
    /\ LastUnder(UserInsertions, "__docs__").some
    /\ SingleTyped
    /\ tasks[1].req.method = "__docs__"
    /\ Len(tasks[1].trace) = 2
    /\ tasks[1].trace[1].who = "endpoint"
    /\ tasks[1].res = Ok("docs")

\* C23 witness of the other finish: after finish_unwrapped() a call to
\* "__docs__" that the user did not register is not found.
C23_WitnessUnwrapped ==
    /\ pc = "done"
    /\ build.fin = "finish_unwrapped"
    /\ ~LastUnder(UserInsertions, "__docs__").some
    /\ SingleTyped
    /\ tasks[1].req.method = "__docs__"
    /\ tasks[1].res = Err(METHOD_NOT_FOUND)

\* The params of a routed call do not decode for its handler's extractor.
Undecodable(t) ==
    /\ t.found
    /\ ~from_request(ExtractorOf(t.endpoint), t.req).ok

\* C24: the params are extracted only in the terminal handler step, after
\* every middleware of the route has delegated: a call with undecodable
\* params still enters the middlewares of its route in order, ends with a
\* middleware's own error if one short-circuits, and gets Invalid Params
\* only once all of them were entered and the endpoint was reached.
C24_ExtractionLast ==
    \A k \in 1..Len(tasks) :
        LET t == tasks[k] IN
        /\ (t.found /\ t.res = Err(INVALID_PARAMS)) =>
              /\ Entered(t) = RouteList(t)
              /\ Len(t.trace) = Len(RouteList(t)) + 1
              /\ t.trace[Len(t.trace)].who = "endpoint"
              /\ FailedAt(t) = 0
        /\ Undecodable(t) =>
              /\ t.st # "ready"
              /\ IsPrefix(Entered(t), RouteList(t))
              /\ (t.st = "run" => t.res = NoResult)
              /\ (t.st = "done" /\ FailedAt(t) = 0) =>
                    /\ Entered(t) = RouteList(t)
                    /\ t.res = Err(INVALID_PARAMS)
              /\ (t.st = "done" /\ FailedAt(t) # 0) =>
                    /\ ~EndpointEntered(t)
                    /\ t.res # Err(INVALID_PARAMS)

\* C24 witness: a typed call with undecodable params entered the one
\* middleware of its route, then the endpoint, and got Invalid Params.
C24_Witness ==
    /\ pc = "done"
    /\ SingleTyped
    /\ GivenId = Str("a")
    /\ Undecodable(tasks[1])
    /\ RouteList(tasks[1]) = <<"C">>
    /\ Entered(tasks[1]) = <<"C">>
    /\ EndpointEntered(tasks[1])
    /\ tasks[1].res = Err(INVALID_PARAMS)

\* C24 witness of the short circuit: a call with undecodable params was
\* rejected by the last middleware of its route with that middleware's
\* error, and no Invalid Params was produced.
C24_WitnessShortCircuit ==
    /\ pc = "done"
    /\ SingleTyped
    /\ Undecodable(tasks[1])
    /\ Len(RouteList(tasks[1])) = 3
    /\ Entered(tasks[1]) = RouteList(tasks[1])
    /\ tasks[1].res = Err(Rejected)

\* C25: in the response list of a raw batch every Invalid Request entry of a
\* malformed element comes after every response to a well-formed element,
\* wherever the malformed elements stand in the input and in whatever order
\* the dispatched calls completed.
C25_ErrsLast ==
    (pc = "done" /\ BatchText /\ output.shape = "Many")
        => /\ \A i, j \in 1..Len(Entries) :
                 (i < j /\ IsInvalidRequestEntry(Entries[i]))
                     => IsInvalidRequestEntry(Entries[j])
           /\ SubSeq(Entries, 1, Len(collected)) = collected
           /\ SubSeq(Entries, Len(collected) + 1, Len(Entries)) = Invalids(MalformedCount)
           /\ \A i \in 1..Len(collected) : IsOtherEntry(collected[i])

\* C25 witness: the malformed element stood first in the text, the two
\* calls after it completed in reverse order, and the list has their two
\* replies and then the Invalid Request entry.
C25_Witness ==
    /\ pc = "done"
    /\ input.kind = "Bytes"
    /\ input.src = MixedText
    /\ Len(tasks) = 2
    /\ Entries = <<tasks[2].out.one, tasks[1].out.one, InvalidRequestEntry>>
    /\ tasks[1].out.one # tasks[2].out.one

\* The input is a text holding a JSON array, with or without whitespace
\* before it.
ArrayText == input.kind = "Bytes" /\ input.src.array

\* A single request yields a single response or no body; a non-empty typed
\* list yields a list or no body.
ShapeOfTyped ==
    /\ (pc = "done" /\ (SingleTyped \/ SingleObject)) => output.shape \in {"One", "Empty"}
    /\ (pc = "done" /\ input.kind = "ManyRequestObjects" /\ input.reqs # <<>>)
          => output.shape \in {"Many", "Empty"}

\* The single top-level response of an array text is that of the empty
\* array or that of a parse failure.
SingleOnlyForEmptyOrParse ==
    (pc = "done" /\ ArrayText /\ output.shape = "One")
        => \/ input.src.elems = <<>> /\ output.one.error = INVALID_REQUEST
           \/ Unparsable /\ output.one.error = PARSE_ERROR

\* C26: the shape of the result follows the shape of the input: a single
\* request yields a single response or no body, never a list; a non-empty
\* batch, also of one element, yields a list or no body, never a single
\* response; an array text gets a single top-level response only when it is
\* the empty array or fails to parse.
C26_ShapeFollowsInput == ShapeOfTyped /\ SingleOnlyForEmptyOrParse

\* The same for the texts whose first byte is the '[': the part of the rule
\* that the code keeps.
ShapeFollowsFirstByte ==
    /\ ShapeOfTyped
    /\ (pc = "done" /\ ArrayText /\ ~input.src.ws /\ output.shape = "One")
          => \/ input.src.elems = <<>> /\ output.one.error = INVALID_REQUEST
             \/ Unparsable /\ output.one.error = PARSE_ERROR
    /\ (pc = "done" /\ BatchText) => output.shape \in {"Many", "Empty"}

====
